---- MODULE Spec2Model ----
(***************************************************************************)
(* Meeting cache, fetch orchestration, notification scheduling and focus   *)
(* sessions of the Aware / Focus Time extension.                           *)
(*                                                                         *)
(* Time is a discrete clock `now` counted in units of 1/UnitsPerMinute     *)
(* minute, so that Math.round over a minute count is a real rounding.      *)
(***************************************************************************)
EXTENDS Integers, Sequences, FiniteSets, TLC

\* ------------------------------------------------------------------------
\* Bounds of the model
\* ------------------------------------------------------------------------
UnitsPerMinute == 3
MaxFetches == 2
FetchHorizonMinutes == 3
ClassifyMax == 5

\* ------------------------------------------------------------------------
\* Values
\* ------------------------------------------------------------------------
NULL == "null"
NaN == -1
\* what a Date | null, an id, a timer handle, a session or a meeting holds
\* when it is null
NoTime == -1
NoId == <<>>
NoHandle == 0
NoSession == [id |-> NoTime, serial |-> 0, startTime |-> NoTime,
              duration |-> 0, remainingMinutes |-> 0]
NoUrl == [host |-> "none", path |-> "none"]
NoIndex == -1
NoMatch == -2
NoMeeting == [id |-> NoId, src |-> NoIndex, title |-> NULL,
              startTime |-> NoTime, endTime |-> NoTime, joinUrl |-> NoUrl,
              status |-> NULL]
TimeRanges == {"today", "tomorrow", "week"}
Variants == {"windows", "connection"}

Max(a, b) == IF a > b THEN a ELSE b
Minutes(m) == m * UnitsPerMinute

VARIABLES
    now,              \* wall clock, in units
    variant,          \* which MeetingService class the build contains
    meetings,         \* MeetingService.meetings (the today collection)
    tomorrowMeetings, \* MeetingService.tomorrowMeetings
    weekMeetings,     \* MeetingService.weekMeetings
    lastRefresh,      \* MeetingService.lastRefresh
    lastError,        \* MeetingService.lastError
    connectionState,  \* MeetingService.connectionStatus.state
    fetches,          \* every fetchMeetings call, in order of initiation
    cacheGen,         \* how many times the today collection was replaced
    enableNotifications,    \* config.enableNotifications
    meetingReminderMinutes, \* config.meetingReminderMinutes
    autoEnableDoNotDisturb, \* config.autoEnableDoNotDisturb
    sentNotifications,      \* NotificationManager.sentNotifications
    lastMeetingInProgress,  \* NotificationManager.lastMeetingInProgress (its id)
    runs,             \* the calls of checkForNotifications suspended at an await
    focus,            \* the FocusSessionManager (record F below)
    nextCheck,        \* when NotificationManager.checkInterval fires next
    hist,             \* history: notifications shown, meeting-ended calls
    cls,              \* inputs and result of one getMeetingStatus call
    pr,               \* input and result of one call of the response parser
    lk,               \* result of the last getNextMeeting / getCurrentMeeting call, and how many
    rd,               \* what the last getCached...Meetings call returned, and how many
    ext               \* the extension's own timers, the webview provider's
                      \* fields and whether the disposables were disposed

svcVars == <<variant, meetings, tomorrowMeetings, weekMeetings, lastRefresh,
             lastError, connectionState, fetches, cacheGen>>
cfgVars == <<enableNotifications, meetingReminderMinutes, autoEnableDoNotDisturb>>
ntfVars == <<sentNotifications, lastMeetingInProgress, runs, hist, nextCheck>>
auxVars == <<cls, pr, lk, rd>>
vars == <<now, svcVars, cfgVars, ntfVars, focus, auxVars, ext>>

\* ------------------------------------------------------------------------
\* MeetingStatusClassifier
\* ------------------------------------------------------------------------
\* comparison of two Dates: false when either is an Invalid Date
DateLt(a, b) == a # NaN /\ b # NaN /\ a < b
DateLe(a, b) == a # NaN /\ b # NaN /\ a <= b

getMeetingStatus_inclusiveStart(start, end, t) ==
    IF DateLe(t, start) THEN "upcoming"
    ELSE IF DateLe(t, end) THEN "inProgress"
    ELSE "ended"

\* meetingService.ts:193-198, the class with the three windows
getMeetingStatus(start, end, t) ==
    IF DateLt(t, start) THEN "upcoming"
    ELSE IF DateLe(t, end) THEN "inProgress"
    ELSE "ended"

\* meetingService.ts:700-709, the class with the connection state
getMeetingStatusConn(start, end, t) ==
    IF DateLt(t, start) THEN "upcoming"
    ELSE IF DateLe(start, t) /\ DateLe(t, end) THEN "inProgress"
    ELSE "ended"

StatusOf(v, start, end, t) ==
    IF v = "windows" THEN getMeetingStatus(start, end, t)
    ELSE getMeetingStatusConn(start, end, t)

\* ------------------------------------------------------------------------
\* ResponseParser.  A response text is described by what the parser's
\* regular expressions and JSON.parse make of it:
\*   json      : "array" (a bracketed span that JSON.parse decodes),
\*               "malformed" (a bracketed span JSON.parse rejects),
\*               "none" (no bracketed span)
\*   items     : the decoded array; an element is an object with the
\*               fields below, or null, or a scalar
\*   footnotes : the markdown links `[n](url)` of the text, in text order
\*   blocks    : the numbered-list blocks `n. **title**` of the text with
\*               what the Start / End / URL expressions match in each
\* A timestamp is a clock value, or NaN when `new Date` cannot parse it,
\* or NoMatch when the expression finds none.  A URL is [host, path].
\* ------------------------------------------------------------------------
TrustedHost == "teams.microsoft.com"
FallbackMinutes == 30

Url(host, path) == [host |-> host, path |-> path]

\* a || b on URLs: a missing, null or empty field is NoUrl
OrElse(a, b) == IF a # NoUrl THEN a ELSE b

Meeting(id, src, it, url, t, v) ==
    [id |-> id, src |-> src, title |-> it.title, startTime |-> it.startTime,
     endTime |-> it.endTime, joinUrl |-> url,
     status |-> StatusOf(v, it.startTime, it.endTime, t)]

\* an element the loop does not skip: its two timestamps parse (the fields
\* of a scalar are undefined, and `new Date(undefined)` is invalid)
ValidItem(it) ==
    it.kind = "object" /\ it.startTime # NaN /\ it.endTime # NaN

\* teamsUrls[idx] after the footnote loop: the url of the last footnote
\* with the trusted prefix whose number is idx + 1
teamsUrlsAt(fs, idx) ==
    LET hits == {k \in 1..Len(fs) :
                    fs[k].url.host = TrustedHost /\ fs[k].n - 1 = idx}
    IN  IF hits = {} THEN NoUrl
        ELSE fs[CHOOSE k \in hits : \A j \in hits : j <= k].url

FootnoteIndex_byPosition(i, acc) == Len(acc)

\* the index teamsUrls is read at for the element at (0-based) index i
FootnoteIndex(i, acc) == i

RECURSIVE InsertByStart(_, _)
InsertByStart(m, sorted) ==
    IF sorted = <<>> THEN <<m>>
    ELSE IF DateLt(m.startTime, Head(sorted).startTime) THEN <<m>> \o sorted
    ELSE <<Head(sorted)>> \o InsertByStart(m, Tail(sorted))

\* Array.prototype.sort with (a, b) => a.startTime - b.startTime (stable)
RECURSIVE SortByStart(_)
SortByStart(ms) ==
    IF ms = <<>> THEN <<>>
    ELSE InsertByStart(ms[Len(ms)], SortByStart(SubSeq(ms, 1, Len(ms) - 1)))

\* what the sort may return: with an Invalid Date among the start times the
\* comparator is inconsistent and the order is implementation-defined
SortOutcomes(ms) ==
    IF \A i \in 1..Len(ms) : ms[i].startTime # NaN THEN {SortByStart(ms)}
    ELSE {[i \in 1..Len(ms) |-> ms[p[i]]] : p \in Permutations(1..Len(ms))}

\* the loop of parseMeetings: id is `meeting-${i}-${Date.now()}`; reading a
\* field of a null element raises a TypeError
RECURSIVE ParseLoop(_, _, _, _)
ParseLoop(resp, i, acc, t) ==
    IF i > Len(resp.items) THEN [acc |-> acc, raised |-> FALSE]
    ELSE LET it == resp.items[i]
         IN  IF it.kind = "null" THEN [acc |-> acc, raised |-> TRUE]
             ELSE IF ~ValidItem(it) THEN ParseLoop(resp, i + 1, acc, t)
             ELSE ParseLoop(resp, i + 1,
                    Append(acc,
                       Meeting(<<i - 1, t>>, i - 1, it,
                               OrElse(teamsUrlsAt(resp.footnotes,
                                         FootnoteIndex(i - 1, acc)),
                                      it.onlineJoinUrl),
                               t, "windows")), t)

\* the try block of parseMeetings (lines 152-185)
TryParse(resp, t) ==
    IF resp.json = "array" THEN ParseLoop(resp, 1, <<>>, t)
    ELSE [acc |-> <<>>, raised |-> resp.json = "malformed"]

CatchParse_rethrow(r) == r

\* the catch block: the error is logged and dropped
CatchParse(r) == [r EXCEPT !.raised = FALSE]

\* parseMeetings up to its final sort
parseMeetingsRun(resp, t) == CatchParse(TryParse(resp, t))

parseMeetings(resp, t) == SortByStart(parseMeetingsRun(resp, t).acc)

\* the structured loop of parseWorkIQTextResponse: id is
\* `meeting-${meetings.length}-${Date.now()}`
RECURSIVE ParseLoopConn(_, _, _, _)
ParseLoopConn(resp, i, acc, t) ==
    IF i > Len(resp.items) THEN [acc |-> acc, raised |-> FALSE]
    ELSE LET it == resp.items[i]
         IN  IF it.kind = "null" THEN [acc |-> acc, raised |-> TRUE]
             ELSE IF ~ValidItem(it) THEN ParseLoopConn(resp, i + 1, acc, t)
             ELSE ParseLoopConn(resp, i + 1,
                    Append(acc,
                       Meeting(<<Len(acc), t>>, i - 1, it,
                               OrElse(teamsUrlsAt(resp.footnotes,
                                         FootnoteIndex(i - 1, acc)),
                                 OrElse(it.onlineJoinUrl,
                                   OrElse(it.joinUrl, it.teamsUrl))),
                               t, "connection")), t)

\* the try block of parseWorkIQTextResponse (lines 560-618)
TryParseConn(resp, t) ==
    IF resp.json = "array" THEN ParseLoopConn(resp, 1, <<>>, t)
    ELSE [acc |-> <<>>, raised |-> resp.json = "malformed"]

\* the numbered-list loop (lines 624-672), appending to the same array
RECURSIVE FallbackLoop(_, _, _, _)
FallbackLoop(blocks, i, acc, t) ==
    IF i > Len(blocks) THEN acc
    ELSE LET b == blocks[i]
             endTime == IF b.endTime # NoMatch THEN b.endTime
                        ELSE IF b.startTime = NaN THEN NaN
                        ELSE b.startTime + Minutes(FallbackMinutes)
             it == [title |-> b.title, startTime |-> b.startTime,
                    endTime |-> endTime]
         IN  IF b.hasTitle /\ b.startTime # NoMatch
             THEN FallbackLoop(blocks, i + 1,
                    Append(acc,
                       Meeting(<<Len(acc), t>>, NoIndex, it,
                               IF b.url.host = TrustedHost THEN b.url
                               ELSE NoUrl,
                               t, "connection")), t)
             ELSE FallbackLoop(blocks, i + 1, acc, t)

\* parseWorkIQTextResponse up to its final sort: the structured result when
\* the try block completed with at least one meeting, else the fallback
parseWorkIQTextResponseRun(resp, t) ==
    LET r == TryParseConn(resp, t)
    IN  IF ~r.raised /\ Len(r.acc) > 0 THEN CatchParse(r)
        ELSE [acc |-> FallbackLoop(resp.blocks, 1, r.acc, t),
              raised |-> CatchParse(r).raised]

parseWorkIQTextResponse(resp, t) ==
    SortByStart(parseWorkIQTextResponseRun(resp, t).acc)

\* ------------------------------------------------------------------------
\* MeetingCache reads
\* ------------------------------------------------------------------------
updateMeetingStatuses(ms, t, v) ==
    [i \in 1..Len(ms) |->
        [ms[i] EXCEPT !.status = StatusOf(v, ms[i].startTime, ms[i].endTime, t)]]

\* first meeting in cache order whose recomputed status is `upcoming`
RECURSIVE FirstWithStatus_last(_, _, _)
FirstWithStatus_last(ms, st, i) ==
    IF i > Len(ms) THEN NoMeeting
    ELSE LET rest == FirstWithStatus_last(ms, st, i + 1)
         IN  IF rest # NoMeeting THEN rest
             ELSE IF ms[i].status = st THEN ms[i]
             ELSE NoMeeting

RECURSIVE FirstWithStatus(_, _, _)
FirstWithStatus(ms, st, i) ==
    IF i > Len(ms) THEN NoMeeting
    ELSE IF ms[i].status = st THEN ms[i]
    ELSE FirstWithStatus(ms, st, i + 1)

\* meetingService.ts:716-722: the upcoming meetings, sorted by start
getNextMeetingConn(ms, t) ==
    LET upcoming == SortByStart(
                      SelectSeq(updateMeetingStatuses(ms, t, "connection"),
                                LAMBDA m : m.status = "upcoming"))
    IN  IF upcoming = <<>> THEN NoMeeting ELSE upcoming[1]

getNextMeeting(ms, t, v) ==
    IF v = "windows"
    THEN FirstWithStatus(updateMeetingStatuses(ms, t, v), "upcoming", 1)
    ELSE getNextMeetingConn(ms, t)

getCurrentMeeting(ms, t, v) ==
    FirstWithStatus(updateMeetingStatuses(ms, t, v), "inProgress", 1)

\* ------------------------------------------------------------------------
\* FocusSessionManager.  F is the manager's state as a record:
\*   currentSession, sessionTimer, updateInterval : the three fields
\*   timers     : the timers armed in the event loop, [h, kind, owner, due]
\*   nextHandle : the next timer handle setTimeout / setInterval returns
\*   sessionSeq : how many sessions were created (owner of a timer)
\* ------------------------------------------------------------------------
TickMinutes == 1
DefaultFocusMinutes == 30
MinFocusMinutes == 5

FloorDiv(a, b) == a \div b

calculateOptimalDuration(ms, t, v, reminder) ==
    LET next == getNextMeeting(ms, t, v)
    IN  IF next # NoMeeting
        THEN Max(MinFocusMinutes,
                 FloorDiv(next.startTime - t, UnitsPerMinute) - reminder)
        ELSE DefaultFocusMinutes

clearTimer(timers, h) == {tm \in timers : tm.h # h}

\* lines 40-66 and 124-149: create the session and arm its two timers
ArmSession(F, t, duration) ==
    LET serial == F.sessionSeq + 1
    IN  [F EXCEPT
          !.currentSession = [id |-> t, serial |-> serial, startTime |-> t,
                              duration |-> duration,
                              remainingMinutes |-> duration],
          !.updateInterval = F.nextHandle,
          !.sessionTimer = F.nextHandle + 1,
          !.timers = F.timers \cup
              {[h |-> F.nextHandle, kind |-> "update", owner |-> serial,
                due |-> t + Minutes(TickMinutes)],
               [h |-> F.nextHandle + 1, kind |-> "terminal", owner |-> serial,
                due |-> t + Minutes(duration)]},
          !.nextHandle = F.nextHandle + 2,
          !.sessionSeq = serial]

stopSessionF(F) ==
    IF F.currentSession = NoSession THEN F
    ELSE [F EXCEPT
           !.timers = clearTimer(clearTimer(F.timers, F.sessionTimer),
                                 F.updateInterval),
           !.sessionTimer = NoHandle,
           !.updateInterval = NoHandle,
           !.ended = @ \cup {F.currentSession.serial},
           !.endedTwice = @ \cup ({F.currentSession.serial} \cap F.ended),
           !.currentSession = NoSession]

startSessionF(F, t, duration) ==
    ArmSession(IF F.currentSession # NoSession THEN stopSessionF(F) ELSE F,
               t, duration)

startFocusAfterMeetingF(F, t, duration) == ArmSession(F, t, duration)

extendSessionF(F, t, additionalMinutes) ==
    IF F.currentSession = NoSession THEN F
    ELSE LET remaining == F.currentSession.remainingMinutes + additionalMinutes
         IN [F EXCEPT
              !.currentSession.duration = @ + additionalMinutes,
              !.currentSession.remainingMinutes = remaining,
              !.timers = clearTimer(F.timers, F.sessionTimer) \cup
                  {[h |-> F.nextHandle, kind |-> "terminal",
                    owner |-> F.currentSession.serial,
                    due |-> t + Minutes(remaining)]},
              !.sessionTimer = F.nextHandle,
              !.nextHandle = F.nextHandle + 1]

\* the setInterval callback of lines 53-61 / 137-145
updateTickF(F, t, tm) ==
    [F EXCEPT
      !.currentSession =
          IF @ = NoSession THEN @
          ELSE [@ EXCEPT !.remainingMinutes =
                  Max(0, F.currentSession.duration -
                         FloorDiv(t - F.currentSession.startTime,
                                  UnitsPerMinute))],
      !.timers = (@ \ {tm}) \cup
                 {[tm EXCEPT !.due = @ + Minutes(TickMinutes)]}]

\* the setTimeout callback of lines 64-66 / 147-149 / 186-188
terminalTimerF(F, tm) == stopSessionF([F EXCEPT !.timers = @ \ {tm}])

\* ------------------------------------------------------------------------
\* NotificationManager.  W is everything one synchronous stretch of
\* checkForNotifications can change, as a record:
\*   meetings, gen : the today collection and how often it was replaced
\*   sent, last    : sentNotifications and lastMeetingInProgress
\*   F             : the focus session manager
\*   shown .. endedDup : what happened so far (history):
\*       shown, dup   : keys shown, keys shown more than once
\*       done         : keys shown by a run that has completed, with the
\*                      start of the latest such run
\*       reshown      : keys shown by a run that began after a run that had
\*                      shown them completed
\*       suppressed   : keys such a later run found due and in the ledger
\*       obsIP        : meetings a check saw inProgress
\*       endedSeen    : of those, the ones a check then saw ended
\*       endedCalls, endedDup : meetings handleMeetingEnded was called for,
\*                      and those it was called for more than once
\* A run is one call of checkForNotifications; it is suspended at an await
\* with pc = "reminder" | "starting" | "ended" and the loop index i.
\* ------------------------------------------------------------------------
RetentionMinutes == 60
CheckMinutes == 1

IdleRun == [pc |-> "idle"]

Key(kind, id) == [kind |-> kind, id |-> id]
SentKeys(W) == {Key(e.kind, e.id) : e \in W.sent}

\* Math.round(x / d) for integers, d > 0: the nearest integer, a tie going up
RoundDiv(x, d) == (2 * x + d) \div (2 * d)

MinutesUntil(start, t) == RoundDiv(start - t, UnitsPerMinute)

\* Map.set(key, {meetingId, type, sentAt})
LedgerSet(sent, kind, id, t) ==
    {e \in sent : ~(e.kind = kind /\ e.id = id)} \cup
    {[kind |-> kind, id |-> id, sentAt |-> t]}

PruneLedger_all(sent, t0) == {}

\* lines 117-123
PruneLedger(sent, t0) ==
    {e \in sent : ~(e.sentAt < t0 - Minutes(RetentionMinutes))}

RunArray(W, run) == IF run.gen = W.gen THEN W.meetings ELSE run.snap

\* vscode.window.show*Message is called: the notification is on screen
Show(W, run, kind, id) ==
    LET k == Key(kind, id)
    IN  [W EXCEPT !.shown = @ \cup {k},
                  !.dup = IF k \in W.shown THEN @ \cup {k} ELSE @,
                  !.reshown = IF k \in run.forbidden THEN @ \cup {k} ELSE @]

\* the ledger kept the run from showing a notification that is due
Suppress(W, run, kind, id) ==
    LET k == Key(kind, id)
    IN  IF k \in run.forbidden /\ k \in SentKeys(W)
        THEN [W EXCEPT !.suppressed = @ \cup {k}] ELSE W

\* the run leaves the loop: prune, then the promise resolves
Finish(W, run) ==
    [w |-> [W EXCEPT !.sent = PruneLedger(@, run.now0),
                     !.done = {d \in @ : d.key \notin run.mine \/ d.start > run.now0}
                              \cup {[key |-> k, start |-> run.now0] :
                                       k \in run.mine \ {d.key : d \in
                                          {e \in W.done : e.start > run.now0}}}],
     run |-> IdleRun]

\* handleMeetingEnded up to its first await
handleMeetingEndedSync(W, m) ==
    LET W1 == [W EXCEPT !.endedCalls = @ \cup {m.id},
                        !.endedDup = IF m.id \in W.endedCalls
                                     THEN @ \cup {m.id} ELSE @]
    IN  IF autoEnableDoNotDisturb
        THEN [W1 EXCEPT
               !.meetings = updateMeetingStatuses(@, now, variant),
               !.F = startFocusAfterMeetingF(@, now,
                        calculateOptimalDuration(W1.meetings, now, variant,
                                                 meetingReminderMinutes))]
        ELSE W1

RECURSIVE CheckLoop(_, _, _)
RECURSIVE StartingCheck(_, _, _, _)

\* lines 103-114
StartingCheck(W, run, i, minutesUntil) ==
    LET m == RunArray(W, run)[i]
    IN  IF minutesUntil <= 1 /\ minutesUntil >= 0
           /\ Key("starting", m.id) \notin SentKeys(W)
        THEN [w |-> Show(W, run, "starting", m.id),
              run |-> [run EXCEPT !.pc = "starting", !.i = i,
                                  !.mine = @ \cup {Key("starting", m.id)}]]
        ELSE IF minutesUntil <= 1 /\ minutesUntil >= 0
        THEN CheckLoop(Suppress(W, run, "starting", m.id), run, i + 1)
        ELSE CheckLoop(W, run, i + 1)

\* lines 66-115, from index i to the next await or the end of the run
CheckLoop(W, run, i) ==
    LET arr == RunArray(W, run)
    IN  IF i > Len(arr) THEN Finish(W, run)
        ELSE LET m == arr[i]
                 seen == IF m.status = "ended" /\ m.id \in W.obsIP
                         THEN [W EXCEPT !.endedSeen = @ \cup {m.id}] ELSE W
             IN  IF m.status = "ended" /\ W.last = m.id
                 THEN [w |-> handleMeetingEndedSync([seen EXCEPT !.last = NoId], m),
                       run |-> [run EXCEPT !.pc = "ended", !.i = i,
                                  !.wait = IF autoEnableDoNotDisturb
                                           THEN "dnd" ELSE "prompt"]]
                 ELSE IF m.status = "inProgress"
                 THEN CheckLoop([seen EXCEPT !.last = m.id,
                                             !.obsIP = @ \cup {m.id}], run, i + 1)
                 ELSE IF m.status # "upcoming"
                 THEN CheckLoop(seen, run, i + 1)
                 ELSE LET minutesUntil == MinutesUntil(m.startTime, run.now0)
                      IN  IF minutesUntil <= run.reminder /\ minutesUntil > 0
                             /\ Key("reminder", m.id) \notin SentKeys(W)
                          THEN [w |-> Show(W, run, "reminder", m.id),
                                run |-> [run EXCEPT
                                   !.pc = "reminder", !.i = i,
                                   !.minutesUntil = minutesUntil,
                                   !.offerEnd = W.F.currentSession # NoSession,
                                   !.mine = @ \cup {Key("reminder", m.id)}]]
                          ELSE IF minutesUntil <= run.reminder /\ minutesUntil > 0
                          THEN StartingCheck(Suppress(W, run, "reminder", m.id),
                                             run, i, minutesUntil)
                          ELSE StartingCheck(W, run, i, minutesUntil)

\* keys a run starting at t must not show again: shown by a run that has
\* completed and had begun at most RetentionMinutes earlier
Forbidden(W, t) ==
    {d.key : d \in {e \in W.done : t - e.start <= Minutes(RetentionMinutes)}}

\* checkForNotifications from its call to its first await (lines 53-66)
checkForNotifications(W) ==
    IF ~enableNotifications THEN [w |-> W, run |-> IdleRun]
    ELSE LET W1 == [W EXCEPT !.meetings = updateMeetingStatuses(@, now, variant)]
             run == [pc |-> "run", i |-> 1, gen |-> W.gen, snap |-> <<>>,
                     now0 |-> now, reminder |-> meetingReminderMinutes,
                     minutesUntil |-> 0, offerEnd |-> FALSE, wait |-> "none",
                     mine |-> {}, forbidden |-> Forbidden(W, now)]
         IN  CheckLoop(W1, run, 1)

\* ------------------------------------------------------------------------
\* FetchOrchestrator.  S is the MeetingService's fields as a record.
\* A response of the external tool is [text, items]: text tells a JSON
\* answer from an empty one and from prose about a license problem; items
\* is the decoded array.
\* ------------------------------------------------------------------------
Element(title, s, e, own) ==
    [kind |-> "object", title |-> title, startTime |-> s, endTime |-> e,
     onlineJoinUrl |-> own, joinUrl |-> NoUrl, teamsUrl |-> NoUrl]
Item(s, e) == Element("standup", s, e, NoUrl)
Text(text, json, items, footnotes, blocks) ==
    [text |-> text, json |-> json, items |-> items,
     footnotes |-> footnotes, blocks |-> blocks]
Resp(text, items) ==
    Text(text, IF text = "json" THEN "array" ELSE "none", items, <<>>, <<>>)
\* two meetings that overlap, neither starting on a full minute
M1 == Item(3, 6)
M2 == Item(5, 8)
Responses ==
    {Resp("json", <<M1>>), Resp("json", <<M2, M1>>), Resp("json", <<>>),
     Resp("json", <<Item(NaN, 6), M2>>),
     Resp("empty", <<>>), Resp("license", <<>>)}
ErrorKinds == {"timeout", "other"}

Svc == [meetings |-> meetings, gen |-> cacheGen,
        tomorrowMeetings |-> tomorrowMeetings,
        weekMeetings |-> weekMeetings, lastRefresh |-> lastRefresh,
        lastError |-> lastError, connectionState |-> connectionState]

\* meetingService.ts:65-79
formatErrorMessage(error) ==
    CASE error = "not available" -> "Work IQ MCP server is not running"
      [] error = "timeout" -> "Connection timed out"
      [] OTHER -> "Failed to connect to Work IQ"

\* meetingService.ts:447-484
detectErrorInResponse(resp) ==
    CASE resp.text = "license" -> "license_required"
      [] resp.text = "admin consent" -> "admin_consent"
      [] resp.text = "sign in" -> "auth_required"
      [] OTHER -> NULL

\* meetingService.ts:489-525
classifyError(error) == "unknown_error"

StoreParsed_keepError(S, timeRange, parsed) ==
    IF timeRange = "tomorrow" THEN [S EXCEPT !.tomorrowMeetings = parsed]
    ELSE IF timeRange = "week" THEN [S EXCEPT !.weekMeetings = parsed]
    ELSE [S EXCEPT !.meetings = parsed, !.gen = @ + 1,
                   !.lastRefresh = now]

StoreParsed_noStamp(S, timeRange, parsed) ==
    IF timeRange = "tomorrow" THEN [S EXCEPT !.tomorrowMeetings = parsed]
    ELSE IF timeRange = "week" THEN [S EXCEPT !.weekMeetings = parsed]
    ELSE [S EXCEPT !.meetings = parsed, !.gen = @ + 1, !.lastError = NULL]

\* meetingService.ts:36-45, the try branch after the parse
StoreParsed(S, timeRange, parsed) ==
    IF timeRange = "tomorrow" THEN [S EXCEPT !.tomorrowMeetings = parsed]
    ELSE IF timeRange = "week" THEN [S EXCEPT !.weekMeetings = parsed]
    ELSE [S EXCEPT !.meetings = parsed, !.gen = @ + 1,
                   !.lastRefresh = now, !.lastError = NULL]

StoreFailure_clear(S, timeRange, error) ==
    IF timeRange = "today"
    THEN [S EXCEPT !.meetings = <<>>, !.gen = @ + 1, !.lastRefresh = NoTime,
                   !.lastError = formatErrorMessage(error)]
    ELSE S

StoreFailure_stamp(S, timeRange, error) ==
    IF timeRange = "today"
    THEN [S EXCEPT !.lastError = formatErrorMessage(error),
                   !.lastRefresh = now]
    ELSE S

\* meetingService.ts:51-58, the catch branch
StoreFailure(S, timeRange, error) ==
    IF timeRange = "today"
    THEN [S EXCEPT !.lastError = formatErrorMessage(error)]
    ELSE S

\* meetingService.ts:306-308: `m.startTime.toISOString()` of an Invalid Date
\* raises a RangeError before the parsed array is assigned
LogThrows(resp) ==
    \E i \in 1..Len(parseWorkIQTextResponse(resp, now)) :
        parseWorkIQTextResponse(resp, now)[i].startTime = NaN

\* meetingService.ts:283-323 with queryWorkIQ's answer for a response
StoreResponseConn(S, timeRange, resp) ==
    IF detectErrorInResponse(resp) # NULL
    THEN [S EXCEPT !.connectionState = detectErrorInResponse(resp)]
    ELSE IF resp.text # "empty" /\ ~LogThrows(resp)
    THEN [S EXCEPT !.connectionState = "connected",
                   !.meetings = parseWorkIQTextResponse(resp, now),
                   !.gen = @ + 1,
                   !.lastRefresh = now]
    ELSE [S EXCEPT !.connectionState = "connected"]

\* meetingService.ts:430-441 then 291-295: invokeTool threw
StoreFailureConn(S, timeRange, error) ==
    [S EXCEPT !.connectionState = classifyError(error)]

StoreUnavailableConn_swapped(S, timeRange, isConfigured) ==
    [S EXCEPT !.connectionState =
        IF isConfigured THEN "not_configured" ELSE "not_started"]

\* meetingService.ts:361-387 then 291-295: the tool is not registered
StoreUnavailableConn(S, timeRange, isConfigured) ==
    [S EXCEPT !.connectionState =
        IF isConfigured THEN "not_started" ELSE "not_configured"]

\* which branch of fetchMeetings a call takes
PathConn(resp) ==
    IF detectErrorInResponse(resp) # NULL THEN "error"
    ELSE IF resp.text = "empty" THEN "empty"
    ELSE IF LogThrows(resp) THEN "rethrow" ELSE "ok"

UpdatedFires_skipEmpty(v, path) == IF path = "empty" THEN 0 ELSE 1

\* how often the branch reaches this._onMeetingsUpdated.fire:
\* meetingService.ts:47, 60 and 293, 300, 312, 315, 321
UpdatedFires(v, path) == 1

\* ------------------------------------------------------------------------
\* State, and how one synchronous stretch is committed to it
\* ------------------------------------------------------------------------
MaxRuns == 2
MaxHandles == 6

HistInit == [shown |-> {}, dup |-> {}, reshown |-> {}, done |-> {},
             suppressed |-> {},
             obsIP |-> {}, endedSeen |-> {}, endedCalls |-> {},
             endedDup |-> {}]

\* config.ts: the default of refreshIntervalMinutes
DefaultRefreshMinutes == 5

setupRefreshInterval_noClear(E, refreshIntervalMinutes) ==
    [E EXCEPT
      !.refreshTimers = @ \cup {[h |-> E.refreshInterval + 1,
                                 period |-> refreshIntervalMinutes]},
      !.refreshInterval = @ + 1]

\* extension.ts:254-267.  refreshInterval is the handle the variable holds
\* (handles are numbered in the order setInterval returns them) and
\* refreshTimers the intervals that are armed
setupRefreshInterval(E, refreshIntervalMinutes) ==
    [E EXCEPT
      !.refreshTimers = {tm \in @ : tm.h # E.refreshInterval}
                        \cup {[h |-> E.refreshInterval + 1,
                               period |-> refreshIntervalMinutes]},
      !.refreshInterval = @ + 1]

\* the extension after activate, with the configuration at its defaults
ExtInit ==
    setupRefreshInterval(
        [webview |-> FALSE, autoRefreshInterval |-> FALSE,
         didAutoRefresh |-> FALSE, refreshAttempts |-> 0,
         autoRefreshTimers |-> 0,
         refreshInterval |-> NoHandle, refreshTimers |-> {},
         disposed |-> FALSE],
        DefaultRefreshMinutes)

PrIdle == [resp |-> NULL, out |-> <<>>, threw |-> FALSE, done |-> FALSE]
\* a number | null is <<n>> or <<>>
LkIdle == [next |-> NoMeeting, current |-> NoMeeting, minutes |-> <<>>,
           n |-> 0]

RdIdle == [range |-> NULL, out |-> <<>>, n |-> 0]

FocusInit == [currentSession |-> NoSession, sessionTimer |-> NoHandle,
              updateInterval |-> NoHandle, timers |-> {}, nextHandle |-> 1,
              sessionSeq |-> 0, ended |-> {}, endedTwice |-> {}]

WorldOf(ms, g) ==
    [meetings |-> ms, gen |-> g, sent |-> sentNotifications,
     last |-> lastMeetingInProgress, F |-> focus,
     shown |-> hist.shown, dup |-> hist.dup, reshown |-> hist.reshown,
     done |-> hist.done, suppressed |-> hist.suppressed, obsIP |-> hist.obsIP, endedSeen |-> hist.endedSeen,
     endedCalls |-> hist.endedCalls, endedDup |-> hist.endedDup]

World == WorldOf(meetings, cacheGen)

FreeSlots(rs) == {r \in 1..MaxRuns : rs[r].pc = "idle"}
LowestFree(rs) == CHOOSE r \in FreeSlots(rs) : \A q \in FreeSlots(rs) : r <= q

\* res is [w, run]: the world after the stretch and the run, if suspended
Commit(res, runsBase) ==
    /\ res.run.pc # "idle" => FreeSlots(runsBase) # {}
    /\ meetings' = res.w.meetings
    /\ sentNotifications' = res.w.sent
    /\ lastMeetingInProgress' = res.w.last
    /\ focus' = res.w.F
    /\ hist' = [shown |-> res.w.shown, dup |-> res.w.dup,
                reshown |-> res.w.reshown, done |-> res.w.done,
                suppressed |-> res.w.suppressed,
                obsIP |-> res.w.obsIP, endedSeen |-> res.w.endedSeen,
                endedCalls |-> res.w.endedCalls, endedDup |-> res.w.endedDup]
    /\ runs' = IF res.run.pc = "idle" THEN runsBase
               ELSE [runsBase EXCEPT ![LowestFree(runsBase)] = res.run]

\* the listeners of onMeetingsUpdated: the status bar's update() recomputes
\* the statuses, the notification manager starts a check
FireUpdated(W) ==
    checkForNotifications(
        [W EXCEPT !.meetings = updateMeetingStatuses(@, now, variant)])

\* a run suspended on the array that is being replaced keeps that array
KeepArrays(rs, g, ms) ==
    [r \in 1..MaxRuns |->
        IF rs[r].pc # "idle" /\ rs[r].gen = g /\ rs[r].snap = <<>>
        THEN [rs[r] EXCEPT !.snap = ms] ELSE rs[r]]

Times(ms) == [i \in 1..Len(ms) |-> <<ms[i].startTime, ms[i].endTime>>]

Strip(ms) ==
    [i \in 1..Len(ms) |->
        [id |-> ms[i].id, startTime |-> ms[i].startTime,
         endTime |-> ms[i].endTime]]

\* MeetingsWebviewProvider._ensureAutoRefresh (with _clearAutoRefreshInterval),
\* which _updateWebview calls on every onLoadingStarted and onMeetingsUpdated
\* event; E.webview tells whether the build registers the provider
\* autoRefreshInterval tells whether the field holds a handle and
\* autoRefreshTimers counts the poll intervals that are armed.
\* meetingsWebviewProvider.ts:131-136
clearAutoRefreshInterval(E) ==
    IF E.autoRefreshInterval
    THEN [E EXCEPT !.autoRefreshInterval = FALSE, !.autoRefreshTimers = @ - 1]
    ELSE E

ensureAutoRefresh_rearm(E, ms, refreshed) ==
    IF ~E.webview \/ E.didAutoRefresh THEN E
    ELSE IF ms # <<>> \/ refreshed # NoTime
    THEN clearAutoRefreshInterval([E EXCEPT !.didAutoRefresh = TRUE])
    ELSE [E EXCEPT !.autoRefreshInterval = TRUE, !.autoRefreshTimers = @ + 1]

\* meetingsWebviewProvider.ts:97-129
ensureAutoRefresh(E, ms, refreshed) ==
    IF ~E.webview \/ E.didAutoRefresh THEN E
    ELSE IF ms # <<>> \/ refreshed # NoTime
    THEN clearAutoRefreshInterval([E EXCEPT !.didAutoRefresh = TRUE])
    ELSE IF ~E.autoRefreshInterval
    THEN [E EXCEPT !.autoRefreshInterval = TRUE, !.autoRefreshTimers = @ + 1]
    ELSE E

\* the listeners of a disposed emitter are not called any more
Listening(E) == ~E.disposed

\* the service's fields after a call's branch, then the update event
FetchCommit(S2, path) ==
    LET fired == UpdatedFires(variant, path) > 0 /\ Listening(ext)
        W == WorldOf(S2.meetings, S2.gen)
        res == IF fired THEN FireUpdated(W) ELSE [w |-> W, run |-> IdleRun]
    IN  /\ Commit(res, IF S2.gen # cacheGen
                       THEN KeepArrays(runs, cacheGen, meetings) ELSE runs)
        /\ cacheGen' = S2.gen
        /\ tomorrowMeetings' = S2.tomorrowMeetings
        /\ weekMeetings' = S2.weekMeetings
        /\ lastRefresh' = S2.lastRefresh
        /\ lastError' = S2.lastError
        /\ connectionState' = S2.connectionState
        /\ ext' = IF fired
                  THEN ensureAutoRefresh(ext, S2.meetings, S2.lastRefresh)
                  ELSE ext

\* the collection a service state holds for a time range
CollectionOf(S, timeRange) ==
    IF timeRange = "tomorrow" THEN S.tomorrowMeetings
    ELSE IF timeRange = "week" THEN S.weekMeetings ELSE S.meetings

\* meetingService.ts:50, 61 and 294, 317, 322: the list fetchMeetings resolves
\* with, <<>> when it rejects. parsedMeetings (line 50) is the array the try
\* branch has just stored for the time range
ReturnedList(v, timeRange, path, S2) ==
    IF v = "windows"
    THEN IF path = "ok" THEN <<Times(CollectionOf(S2, timeRange))>>
         ELSE <<Times(S2.meetings)>>
    ELSE IF path = "rethrow" THEN <<>> ELSE <<Times(S2.meetings)>>

\* the record of a completed call: the branch it took, the events it fired,
\* whether it assigned this.meetings, the start and end times it stored and
\* the list it returned
FetchDone(timeRange, path, S2) ==
    [timeRange |-> timeRange, st |-> "done", path |-> path, loading |-> 1,
     updated |-> UpdatedFires(variant, path),
     wrote |-> S2.gen # cacheGen,
     parsed |-> IF S2.gen # cacheGen THEN Times(S2.meetings) ELSE <<>>,
     hadCache |-> meetings # <<>> /\ lastRefresh # NoTime,
     returned |-> ReturnedList(variant, timeRange, path, S2)]

\* ------------------------------------------------------------------------
\* Actions
\* ------------------------------------------------------------------------
\* fetchMeetings is called and the tool is registered: the call is
\* suspended in vscode.lm.invokeTool
FetchStart(timeRange) ==
    /\ Len(fetches) < MaxFetches
    /\ fetches' = Append(fetches,
          [timeRange |-> timeRange, st |-> "pending", path |-> "none",
           loading |-> 1, updated |-> 0, wrote |-> FALSE, parsed |-> <<>>,
           hadCache |-> FALSE, returned |-> <<>>])
    /\ ext' = IF Listening(ext)
              THEN ensureAutoRefresh(ext, meetings, lastRefresh) ELSE ext
    /\ UNCHANGED <<now, variant, meetings, tomorrowMeetings, weekMeetings,
                   lastRefresh, lastError, connectionState, cacheGen,
                   cfgVars, ntfVars, focus, auxVars>>

\* fetchMeetings is called and the tool is not registered
FetchUnavailable(timeRange, isConfigured) ==
    /\ Len(fetches) < MaxFetches
    /\ LET S2 == IF variant = "windows"
                 THEN StoreFailure(Svc, timeRange, "not available")
                 ELSE StoreUnavailableConn(Svc, timeRange, isConfigured)
       IN  /\ FetchCommit(S2, "unavailable")
           /\ fetches' = Append(fetches, FetchDone(timeRange, "unavailable", S2))
    /\ UNCHANGED <<now, variant, cfgVars, auxVars, nextCheck>>

\* invokeTool resolves with a response
FetchReturn(k, resp) ==
    /\ k \in 1..Len(fetches)
    /\ fetches[k].st = "pending"
    /\ LET timeRange == fetches[k].timeRange
           path == IF variant = "windows" THEN "ok" ELSE PathConn(resp)
           S2 == IF variant = "windows"
                 THEN StoreParsed(Svc, timeRange, parseMeetings(resp, now))
                 ELSE StoreResponseConn(Svc, timeRange, resp)
       IN  /\ FetchCommit(S2, path)
           /\ fetches' = [fetches EXCEPT ![k] = FetchDone(timeRange, path, S2)]
    /\ UNCHANGED <<now, variant, cfgVars, auxVars, nextCheck>>

\* invokeTool rejects
FetchThrow(k, error) ==
    /\ k \in 1..Len(fetches)
    /\ fetches[k].st = "pending"
    /\ LET timeRange == fetches[k].timeRange
           S2 == IF variant = "windows"
                 THEN StoreFailure(Svc, timeRange, error)
                 ELSE StoreFailureConn(Svc, timeRange, error)
       IN  /\ FetchCommit(S2, "throw")
           /\ fetches' = [fetches EXCEPT ![k] = FetchDone(timeRange, "throw", S2)]
    /\ UNCHANGED <<now, variant, cfgVars, auxVars, nextCheck>>

\* a view reads the cache: getCachedMeetings / getNextMeeting / getCurrentMeeting
getCachedMeetings ==
    /\ meetings' = updateMeetingStatuses(meetings, now, variant)
    /\ meetings' # meetings
    /\ UNCHANGED <<now, variant, tomorrowMeetings, weekMeetings, lastRefresh,
                   lastError, connectionState, fetches, cacheGen, cfgVars,
                   ntfVars, focus, auxVars, ext>>

\* time passes
Advance(d, horizon) ==
    /\ now + d <= horizon
    /\ now' = now + d
    /\ UNCHANGED <<svcVars, cfgVars, ntfVars, focus, auxVars, ext>>

\* start's own immediate check runs, or its 60-second interval fires;
\* nextCheck is when the next one is due
Tick ==
    /\ now = nextCheck
    /\ nextCheck' = now + Minutes(CheckMinutes)
    /\ Commit(checkForNotifications(World), runs)
    /\ UNCHANGED <<now, variant, tomorrowMeetings, weekMeetings, lastRefresh,
                   lastError, connectionState, fetches, cacheGen, cfgVars, auxVars,
                   ext>>

Resumed(r) == [runs EXCEPT ![r] = IdleRun]
RunMeeting(r) == RunArray(World, runs[r])[runs[r].i]

\* the user answers or dismisses a reminder: lines 145-149, then 95-99
RespondReminder(r, choice) ==
    /\ runs[r].pc = "reminder"
    /\ choice \in {"dismiss", "endFocus"}
    /\ choice = "endFocus" => runs[r].offerEnd
    /\ LET W1 == IF choice = "endFocus"
                 THEN [World EXCEPT !.F = stopSessionF(@)] ELSE World
           W2 == [W1 EXCEPT !.sent = LedgerSet(@, "reminder", RunMeeting(r).id, now)]
       IN  Commit(StartingCheck(W2, runs[r], runs[r].i, runs[r].minutesUntil),
                  Resumed(r))
    /\ UNCHANGED <<now, variant, tomorrowMeetings, weekMeetings, lastRefresh,
                   lastError, connectionState, fetches, cacheGen, cfgVars, auxVars,
                   ext, nextCheck>>

\* the user answers or dismisses a starting notification: lines 166-168,
\* then 108-112
RespondStarting(r) ==
    /\ runs[r].pc = "starting"
    /\ LET W2 == [World EXCEPT
                    !.sent = LedgerSet(@, "starting", RunMeeting(r).id, now)]
       IN  Commit(CheckLoop(W2, runs[r], runs[r].i + 1), Resumed(r))
    /\ UNCHANGED <<now, variant, tomorrowMeetings, weekMeetings, lastRefresh,
                   lastError, connectionState, fetches, cacheGen, cfgVars, auxVars,
                   ext, nextCheck>>

\* handleMeetingEnded resumes: Do Not Disturb was switched, or the user
\* answered the prompt of lines 181-189
RespondEnded(r, choice) ==
    /\ runs[r].pc = "ended"
    /\ choice \in {"dismiss", "startFocus"}
    /\ choice = "startFocus" => runs[r].wait = "prompt"
    /\ IF choice = "startFocus"
       THEN LET ms == updateMeetingStatuses(meetings, now, variant)
                W1 == [World EXCEPT
                        !.meetings = ms,
                        !.F = startSessionF(@, now,
                                 calculateOptimalDuration(ms, now, variant,
                                                          meetingReminderMinutes))]
            IN  IF autoEnableDoNotDisturb
                THEN Commit([w |-> W1, run |-> [runs[r] EXCEPT !.wait = "dnd"]],
                            Resumed(r))
                ELSE Commit(CheckLoop(W1, runs[r], runs[r].i + 1), Resumed(r))
       ELSE Commit(CheckLoop(World, runs[r], runs[r].i + 1), Resumed(r))
    /\ UNCHANGED <<now, variant, tomorrowMeetings, weekMeetings, lastRefresh,
                   lastError, connectionState, fetches, cacheGen, cfgVars, auxVars,
                   ext, nextCheck>>

\* the focus session manager's entry points and timer callbacks
notFocus == <<variant, meetings, tomorrowMeetings, weekMeetings, lastRefresh,
              lastError, connectionState, fetches, cacheGen, cfgVars,
              ntfVars, auxVars, ext, now>>

\* startSession(durationMinutes); 0 stands for an omitted argument
startSession(durationMinutes) ==
    /\ focus.nextHandle + 1 <= MaxHandles
    /\ focus' = startSessionF(focus, now,
                    IF durationMinutes # 0 THEN durationMinutes
                    ELSE calculateOptimalDuration(
                            updateMeetingStatuses(meetings, now, variant),
                            now, variant, meetingReminderMinutes))
    /\ UNCHANGED notFocus

stopSession ==
    /\ focus.currentSession # NoSession
    /\ focus' = stopSessionF(focus)
    /\ UNCHANGED notFocus

\* a meeting ended and Do Not Disturb is switched on automatically
startFocusAfterMeeting ==
    /\ focus.nextHandle + 1 <= MaxHandles
    /\ focus' = startFocusAfterMeetingF(focus, now,
                    calculateOptimalDuration(
                        updateMeetingStatuses(meetings, now, variant),
                        now, variant, meetingReminderMinutes))
    /\ UNCHANGED notFocus

extendSession(additionalMinutes) ==
    /\ focus.currentSession # NoSession
    /\ focus.nextHandle <= MaxHandles
    /\ focus' = extendSessionF(focus, now, additionalMinutes)
    /\ UNCHANGED notFocus

\* a per-minute update interval is due
UpdateTimerFires ==
    \E tm \in focus.timers :
        /\ tm.kind = "update"
        /\ tm.due = now
        /\ focus' = updateTickF(focus, now, tm)
        /\ UNCHANGED notFocus

\* a terminal timeout is due
TerminalTimerFires ==
    \E tm \in focus.timers :
        /\ tm.kind = "terminal"
        /\ tm.due = now
        /\ focus' = terminalTimerF(focus, tm)
        /\ UNCHANGED notFocus

\* time passes, no further than the next timer that is due
AdvanceFocus(d, horizon) ==
    /\ \A tm \in focus.timers : tm.due >= now + d
    /\ Advance(d, horizon)

\* ------------------------------------------------------------------------
\* SpecFetch: the meeting service alone, notifications switched off
\* ------------------------------------------------------------------------
InitCommon ==
    /\ now = 0
    /\ variant \in Variants
    /\ meetings = <<>>
    /\ tomorrowMeetings = <<>>
    /\ weekMeetings = <<>>
    /\ lastRefresh = NoTime
    /\ lastError = NULL
    /\ connectionState = "not_configured"
    /\ fetches = <<>>
    /\ cacheGen = 0
    /\ sentNotifications = {}
    /\ lastMeetingInProgress = NoId
    /\ runs = [r \in 1..MaxRuns |-> IdleRun]
    /\ focus = FocusInit
    /\ hist = HistInit
    /\ nextCheck = 0
    /\ pr = PrIdle
    /\ lk = LkIdle
    /\ rd = RdIdle
    /\ ext = ExtInit

ClsIdle == [start |-> 0, end |-> 0, t |-> 0, result |-> NULL]

InitFetch ==
    /\ InitCommon
    /\ cls = ClsIdle
    /\ enableNotifications = FALSE
    /\ meetingReminderMinutes = 2
    /\ autoEnableDoNotDisturb = FALSE

NextFetch ==
    \/ \E timeRange \in TimeRanges : FetchStart(timeRange)
    \/ \E timeRange \in TimeRanges, c \in BOOLEAN : FetchUnavailable(timeRange, c)
    \/ \E k \in 1..MaxFetches, resp \in Responses : FetchReturn(k, resp)
    \/ \E k \in 1..MaxFetches, e \in ErrorKinds : FetchThrow(k, e)
    \/ getCachedMeetings
    \/ Advance(Minutes(1), Minutes(FetchHorizonMinutes))

SpecFetch == InitFetch /\ [][NextFetch]_vars

\* C3: a today fetch whose external call fails (the tool is not registered,
\* or invokeTool throws) leaves the today collection and lastRefresh as
\* they were.
FailedNow(k) ==
    /\ k \in 1..Len(fetches')
    /\ fetches'[k].st = "done"
    /\ fetches'[k].timeRange = "today"
    /\ fetches'[k].path \in {"unavailable", "throw"}
    /\ (k > Len(fetches) \/ fetches[k].st = "pending")

C3_FailedFetchKeepsCache ==
    [][\A k \in 1..MaxFetches :
          FailedNow(k) => /\ Strip(meetings') = Strip(meetings)
                          /\ lastRefresh' = lastRefresh]_vars

C3_Witness ==
    \E k \in 1..Len(fetches) :
        /\ fetches[k].st = "done"
        /\ fetches[k].timeRange = "today"
        /\ fetches[k].path \in {"unavailable", "throw"}
        /\ fetches[k].hadCache

\* C4: when all fetches were for today and all have completed, the today
\* collection is what the latest-initiated successful fetch parsed, also
\* when an earlier-initiated fetch returned after it.
Wrote(k) == fetches[k].st = "done" /\ fetches[k].wrote

C4_LaterInitiatedWins ==
    (/\ \A k \in 1..Len(fetches) :
            fetches[k].st = "done" /\ fetches[k].timeRange = "today"
     /\ \E k \in 1..Len(fetches) : Wrote(k))
    => LET last == CHOOSE k \in 1..Len(fetches) :
                      Wrote(k) /\ \A j \in 1..Len(fetches) : Wrote(j) => j <= k
       IN  Times(meetings) = fetches[last].parsed

CompletedNow(k) ==
    /\ k \in 1..Len(fetches')
    /\ fetches'[k].st = "done"
    /\ (k > Len(fetches) \/ fetches[k].st = "pending")

C7_OtherWindowsLeaveToday ==
    [][\A k \in 1..MaxFetches :
          (CompletedNow(k) /\ fetches'[k].timeRange # "today")
          => /\ Strip(meetings') = Strip(meetings)
             /\ lastRefresh' = lastRefresh
             /\ lastError' = lastError]_vars

\* a today fetch completes in this step on its success branch
SucceededNow(k) ==
    /\ CompletedNow(k)
    /\ fetches'[k].timeRange = "today"
    /\ fetches'[k].path = "ok"

\* C23: in the class that has lastError, a today fetch that fails leaves it
\* non-null and a today fetch that succeeds leaves it null; a step that
\* turns it from non-null to null is the completion of a successful fetch.
C23_LastErrorFollowsTodayFetch ==
    [][variant = "windows" =>
        /\ \A k \in 1..MaxFetches :
              /\ FailedNow(k) => lastError' # NULL
              /\ SucceededNow(k) => lastError' = NULL
        /\ (lastError # NULL /\ lastError' = NULL)
              => \E k \in 1..MaxFetches : SucceededNow(k)]_vars

C23_Witness ==
    /\ variant = "windows"
    /\ lastError = NULL
    /\ \E j, k \in 1..Len(fetches) :
          /\ fetches[j].st = "done" /\ fetches[j].timeRange = "today"
          /\ fetches[j].path \in {"unavailable", "throw"}
          /\ fetches[k].st = "done" /\ fetches[k].timeRange = "today"
          /\ fetches[k].path = "ok"

\* C24: lastRefresh changes only in the step in which a fetch completes on
\* its success branch, and then to the time of that step; a fetch that
\* completes on another branch leaves it as it was; it never decreases.
C24_LastRefreshOnlyOnSuccess ==
    [][/\ lastRefresh' # lastRefresh =>
            /\ \E k \in 1..MaxFetches :
                  CompletedNow(k) /\ fetches'[k].path = "ok"
            /\ lastRefresh' = now
       /\ \A k \in 1..MaxFetches :
            (CompletedNow(k) /\ fetches'[k].path # "ok")
                => lastRefresh' = lastRefresh
       /\ lastRefresh' >= lastRefresh]_vars

C24_Witness ==
    /\ lastRefresh # NoTime
    /\ lastRefresh < now
    /\ \E j, k \in 1..Len(fetches) :
          /\ j < k
          /\ fetches[j].st = "done" /\ fetches[j].path = "ok"
          /\ fetches[k].st = "done" /\ fetches[k].path # "ok"
          /\ fetches[k].hadCache

\* C25: when invokeTool resolves with a text that matches a license,
\* admin-consent or authentication pattern, the fetch stores nothing: the
\* three collections and lastRefresh stay as they were, and the failure is
\* recorded (the connection state takes the classification, or lastError of
\* a today fetch is set).
C25_ErrorTextIsNotParsed ==
    [][\A k \in 1..MaxFetches, resp \in Responses :
          (detectErrorInResponse(resp) # NULL /\ FetchReturn(k, resp))
          => /\ Strip(meetings') = Strip(meetings)
             /\ tomorrowMeetings' = tomorrowMeetings
             /\ weekMeetings' = weekMeetings
             /\ lastRefresh' = lastRefresh
             /\ IF variant = "connection"
                THEN connectionState' = detectErrorInResponse(resp)
                ELSE fetches[k].timeRange = "today" => lastError' # NULL]_vars

\* the calls suspended in vscode.lm.invokeTool
Invoked(fs) == {k \in 1..Len(fs) : fs[k].st = "pending"}

C31_CacheChangesInOneStep ==
    [][/\ (\A k \in 1..MaxFetches : ~CompletedNow(k))
          => /\ Strip(meetings') = Strip(meetings)
             /\ cacheGen' = cacheGen
             /\ lastRefresh' = lastRefresh
             /\ lastError' = lastError
       /\ cacheGen' # cacheGen
          => /\ lastRefresh' = now
             /\ variant = "windows" => lastError' = NULL
       /\ lastRefresh' # lastRefresh => cacheGen' # cacheGen]_vars

C31_Witness ==
    /\ \E k \in 1..Len(fetches) :
          fetches[k].st = "pending" /\ fetches[k].timeRange = "today"
    /\ \E k \in 1..Len(fetches) : Wrote(k)
    /\ meetings # <<>>
    /\ lastRefresh = now
    /\ now > 0

\* C32: in the class that caches three time ranges, the list a call of
\* fetchMeetings returns is the collection cached for the time range it was
\* called with, whichever branch it took.
C32_ReturnsRequestedWindow ==
    [][\A k \in 1..MaxFetches :
          (variant = "windows" /\ CompletedNow(k) /\ fetches'[k].returned # <<>>)
          => fetches'[k].returned[1] =
                Times(CollectionOf([meetings |-> meetings',
                                    tomorrowMeetings |-> tomorrowMeetings',
                                    weekMeetings |-> weekMeetings'],
                                   fetches'[k].timeRange))]_vars

\* a response of a successful call that names no meeting: an empty JSON
\* array or an empty text
NoMeetingIn(resp) == resp.text \in {"json", "empty"} /\ resp.items = <<>>

\* C33: a today fetch whose call of the tool succeeds with a response that
\* holds no meeting, an empty text included, assigns the empty list to the
\* today collection and stamps lastRefresh.
C33_EmptyResponseReplacesAndStamps ==
    [][\A k \in 1..MaxFetches, resp \in Responses :
          (/\ FetchReturn(k, resp)
           /\ fetches[k].timeRange = "today"
           /\ NoMeetingIn(resp))
          => /\ meetings' = <<>>
             /\ cacheGen' # cacheGen
             /\ lastRefresh' = now]_vars

\* ------------------------------------------------------------------------
\* SpecStatus: getMeetingStatus applied to drawn arguments
\* ------------------------------------------------------------------------
Classify ==
    /\ cls.result = NULL
    /\ cls' = [cls EXCEPT !.result = StatusOf(variant, cls.start, cls.end, cls.t)]
    /\ UNCHANGED <<now, svcVars, cfgVars, ntfVars, focus, pr, lk, rd, ext>>

InitStatus ==
    /\ InitCommon
    /\ enableNotifications = FALSE
    /\ meetingReminderMinutes = 2
    /\ autoEnableDoNotDisturb = FALSE
    /\ cls \in [start : 0..ClassifyMax, end : 0..ClassifyMax,
                 t : 0..ClassifyMax, result : {NULL}]
    /\ cls.start <= cls.end

NextStatus == Classify

SpecStatus == InitStatus /\ [][NextStatus]_vars

\* C6: for start <= end, getMeetingStatus gives upcoming exactly when
\* now < start, inProgress exactly when start <= now <= end and ended
\* exactly when now > end.
C6_StatusBoundaries ==
    cls.result # NULL =>
        /\ cls.result = "upcoming" <=> cls.t < cls.start
        /\ cls.result = "inProgress" <=> (cls.start <= cls.t /\ cls.t <= cls.end)
        /\ cls.result = "ended" <=> cls.t > cls.end

C6_Witness ==
    /\ cls.result = "inProgress"
    /\ cls.t = cls.start
    /\ cls.start < cls.end
    /\ variant = "windows"

\* ------------------------------------------------------------------------
\* SpecNotify: the notification manager over the today collection, with
\* notifications enabled.  The user answers notifications whenever they
\* like; the focus session manager is not driven here.
\* ------------------------------------------------------------------------
NotifyHorizonMinutes == 3
ReminderChoices == {2}
NotifyResponses == {Resp("json", <<M2, M1>>)}

InitNotify ==
    /\ InitCommon
    /\ cls = ClsIdle
    /\ enableNotifications = TRUE
    /\ meetingReminderMinutes \in ReminderChoices
    /\ autoEnableDoNotDisturb = FALSE

NextNotify ==
    \/ Tick
    \/ \E r \in 1..MaxRuns : RespondReminder(r, "dismiss")
    \/ \E r \in 1..MaxRuns : RespondStarting(r)
    \/ \E r \in 1..MaxRuns : RespondEnded(r, "dismiss")
    \/ FetchStart("today")
    \/ \E k \in 1..MaxFetches, resp \in NotifyResponses : FetchReturn(k, resp)
    \/ (now < nextCheck /\ Advance(Minutes(1), Minutes(NotifyHorizonMinutes)))

SpecNotify == InitNotify /\ [][NextNotify]_vars

\* C1: no reminder and no starting notification is shown twice for the
\* same meeting id, whatever the order of interval ticks, update-triggered
\* checks and answers to pending notifications.
C1_AtMostOncePerId == hist.dup = {}

\* C2: a run of checkForNotifications that begins after an earlier run has
\* completed (both within the retention window) shows no reminder and no
\* starting notification that the earlier run showed.
C2_SecondRunShowsNothingAgain == hist.reshown = {}

C2_Witness ==
    \E k \in hist.suppressed :
        /\ \E d \in hist.done : d.key = k
        /\ k \notin hist.dup

\* C8: while a notification a run has shown is waiting for the user, the
\* run has already recorded its ledger entry.
C8_RecordedWithoutWaiting ==
    \A r \in 1..MaxRuns :
        runs[r].pc \in {"reminder", "starting"}
        => Key(runs[r].pc, RunMeeting(r).id) \in SentKeys(World)

\* C9: for every meeting one check saw inProgress and a later check saw
\* ended, handleMeetingEnded was called, and called once.
C9_EndedHandledOnce ==
    /\ \A id \in hist.endedSeen : id \in hist.endedCalls
    /\ hist.endedDup = {}

\* a call of checkForNotifications has in this step put a reminder or a
\* starting notification on screen and waits for the answer in slot r
RunCore(run) == IF run.pc = "idle" THEN run ELSE [run EXCEPT !.snap = <<>>]

ShowsNow(r) ==
    /\ runs'[r].pc \in {"reminder", "starting"}
    /\ \A q \in 1..MaxRuns : RunCore(runs[q]) # RunCore(runs'[r])

\* the notification of slot r is answered in this step
AnsweredNow(r) ==
    /\ runs[r].pc \in {"reminder", "starting"}
    /\ \A q \in 1..MaxRuns : RunCore(runs'[q]) # RunCore(runs[r])

\* the meeting the notification of slot r is about
ShownMeeting(r) ==
    (IF runs'[r].gen = cacheGen' THEN meetings' ELSE runs'[r].snap)[runs'[r].i]

\* C27: when a reminder is put on screen its meeting is upcoming and starts
\* in more than 0 and at most meetingReminderMinutes (rounded) minutes; when
\* a starting notification is put on screen its meeting is upcoming and
\* starts in 0 or 1 (rounded) minutes; and when the answer has come, the
\* ledger holds the entry of that meeting id and kind.
C27_ShownOnlyWhenDue ==
    [][\A r \in 1..MaxRuns :
          /\ ShowsNow(r) =>
                LET m == ShownMeeting(r)
                    minutesUntil == MinutesUntil(m.startTime, now)
                IN  /\ StatusOf(variant, m.startTime, m.endTime, now) = "upcoming"
                    /\ runs'[r].pc = "reminder" =>
                          (0 < minutesUntil /\ minutesUntil <= meetingReminderMinutes)
                    /\ runs'[r].pc = "starting" =>
                          (0 <= minutesUntil /\ minutesUntil <= 1)
          /\ AnsweredNow(r)
                => Key(runs[r].pc, RunMeeting(r).id) \in SentKeys(World')]_vars

\* two ids of the same meeting: the same position in the one response of
\* NotifyResponses (same title and start time), parsed at any two times
SameMeeting(id1, id2) == id1[1] = id2[1]

\* C29: a notification of one kind is not shown for a meeting and then
\* again for the same meeting (same title and start time) as a later fetch
\* returned it.
C29_NoRepeatAfterRefetch ==
    \A k1, k2 \in hist.shown :
        (k1.kind = k2.kind /\ SameMeeting(k1.id, k2.id)) => k1.id = k2.id

\* ------------------------------------------------------------------------
\* SpecFocus: the focus session manager and its timers
\* ------------------------------------------------------------------------
FocusHorizonMinutes == 3
FocusDurations == {0, 1, 2}
ExtendMinutes == 15

InitFocus ==
    /\ InitCommon
    /\ cls = ClsIdle
    /\ enableNotifications = FALSE
    /\ meetingReminderMinutes = 2
    /\ autoEnableDoNotDisturb \in BOOLEAN

NextFocus ==
    \/ \E d \in FocusDurations : startSession(d)
    \/ stopSession
    \/ startFocusAfterMeeting
    \/ extendSession(ExtendMinutes)
    \/ UpdateTimerFires
    \/ TerminalTimerFires
    \/ AdvanceFocus(Minutes(1), Minutes(FocusHorizonMinutes))

SpecFocus == InitFocus /\ [][NextFocus]_vars

\* C10: at most one terminal timer and at most one update interval are
\* armed, and every armed timer belongs to the current session.
C10_TimersOfCurrentSessionOnly ==
    /\ Cardinality({tm \in focus.timers : tm.kind = "terminal"}) <= 1
    /\ Cardinality({tm \in focus.timers : tm.kind = "update"}) <= 1
    /\ \A tm \in focus.timers :
          /\ focus.currentSession # NoSession
          /\ tm.owner = focus.currentSession.serial

\* the sessions onSessionStarted has fired for (every session created, in
\* the order of their serial numbers) and is no longer the current one
PastSessions == {n \in 1..focus.sessionSeq : n # focus.currentSession.serial}

\* C34: onSessionEnded fires only for a session onSessionStarted has fired
\* for, never twice for one session, and it has fired for every session
\* that another session or no session has replaced as the current one.
C34_EverySessionEndsOnce ==
    /\ focus.ended \subseteq 1..focus.sessionSeq
    /\ focus.endedTwice = {}
    /\ PastSessions \subseteq focus.ended

\* the terminal timer the sessionTimer field holds
SessionTimerOf(F) == {tm \in F.timers : tm.h = F.sessionTimer}

\* C35: after a call of extendSession the terminal timer of the session is
\* due at startTime plus duration minutes, the end time getFocusStatus
\* reports; and a per-minute update before that timer is due leaves the
\* session with remainingMinutes above 0.
C35_TerminalTimerAtEndTime ==
    [][/\ (extendSession(ExtendMinutes)
           => \A tm \in SessionTimerOf(focus') :
                 tm.due = focus'.currentSession.startTime
                          + Minutes(focus'.currentSession.duration))
       /\ (/\ UpdateTimerFires
           /\ focus'.currentSession # NoSession
           /\ \E tm \in SessionTimerOf(focus') : tm.due > now)
          => focus'.currentSession.remainingMinutes > 0]_vars

\* ------------------------------------------------------------------------
\* SpecTeardown: the timers the extension arms, and the disposal of
\* context.subscriptions.  A build either registers the webview provider
\* (ext.webview) or has the focus session manager.
\* ------------------------------------------------------------------------
MaxRefreshAttempts == 3

\* the view is shown: resolveWebviewView ends in _ensureAutoRefresh
resolveWebviewView ==
    /\ ext.webview
    /\ Listening(ext)
    /\ meetings' = updateMeetingStatuses(meetings, now, variant)
    /\ ext' = ensureAutoRefresh(ext, meetings, lastRefresh)
    /\ ext' # ext
    /\ UNCHANGED <<now, variant, tomorrowMeetings, weekMeetings, lastRefresh,
                   lastError, connectionState, fetches, cacheGen, cfgVars,
                   ntfVars, focus, auxVars>>

\* the 2-second poll of _ensureAutoRefresh fires; available is
\* isWorkIQAvailable().  The refresh command exists until it is disposed.
AutoRefreshPoll(available) ==
    /\ ext.autoRefreshInterval
    /\ meetings' = updateMeetingStatuses(meetings, now, variant)
    /\ IF lastRefresh # NoTime \/ meetings # <<>>
       THEN /\ ext' = clearAutoRefreshInterval(
                          [ext EXCEPT !.didAutoRefresh = TRUE])
            /\ UNCHANGED fetches
       ELSE /\ available
            /\ ext.refreshAttempts < MaxRefreshAttempts
            /\ ext' = [ext EXCEPT !.refreshAttempts = @ + 1]
            /\ IF Listening(ext)
               THEN /\ Len(fetches) < MaxFetches
                    /\ fetches' = Append(fetches,
                          [timeRange |-> "today", st |-> "pending",
                           path |-> "none", loading |-> 1, updated |-> 0,
                           wrote |-> FALSE, parsed |-> <<>>,
                           hadCache |-> FALSE, returned |-> <<>>])
               ELSE UNCHANGED fetches
    /\ UNCHANGED <<now, variant, tomorrowMeetings, weekMeetings, lastRefresh,
                   lastError, connectionState, cacheGen, cfgVars, ntfVars,
                   focus, auxVars>>

\* the interval of setupRefreshInterval fires: refreshMeetings
RefreshIntervalFires ==
    /\ ext.refreshTimers # {}
    /\ FetchStart("today")

\* FocusSessionManager.dispose: the two handles the fields hold are cleared
disposeF(F) ==
    [F EXCEPT !.timers = clearTimer(clearTimer(@, F.sessionTimer),
                                    F.updateInterval)]

\* context.subscriptions are disposed: NotificationManager.dispose (stop),
\* FocusSessionManager.dispose, the Disposable that clears refreshInterval,
\* the emitters of the meeting service, the commands
Dispose ==
    /\ ~ext.disposed
    /\ nextCheck' = NoTime
    /\ focus' = disposeF(focus)
    /\ ext' = [ext EXCEPT
                !.refreshTimers = {tm \in @ : tm.h # ext.refreshInterval},
                !.disposed = TRUE]
    /\ UNCHANGED <<now, svcVars, cfgVars, sentNotifications,
                   lastMeetingInProgress, runs, hist, auxVars>>

MaxSetups == 2
RefreshPeriods == {1, DefaultRefreshMinutes}

\* the listener of onConfigChange (extension.ts:87-98) runs after
\* refreshIntervalMinutes was set to a value
RefreshConfigChanged(refreshIntervalMinutes) ==
    /\ Listening(ext)
    /\ ext.refreshInterval <= MaxSetups
    /\ ext' = setupRefreshInterval(ext, refreshIntervalMinutes)
    /\ UNCHANGED <<now, svcVars, cfgVars, ntfVars, focus, auxVars>>

TeardownDurations == {1}
TeardownResponses == {Resp("json", <<M1>>), Resp("json", <<>>)}

InitTeardown ==
    /\ now = 0
    /\ variant \in Variants
    /\ meetings = <<>>
    /\ tomorrowMeetings = <<>>
    /\ weekMeetings = <<>>
    /\ lastRefresh = NoTime
    /\ lastError = NULL
    /\ connectionState = "not_configured"
    /\ fetches = <<>>
    /\ cacheGen = 0
    /\ sentNotifications = {}
    /\ lastMeetingInProgress = NoId
    /\ runs = [r \in 1..MaxRuns |-> IdleRun]
    /\ focus = FocusInit
    /\ hist = HistInit
    /\ nextCheck = 0
    /\ pr = PrIdle
    /\ lk = LkIdle
    /\ rd = RdIdle
    /\ cls = ClsIdle
    /\ enableNotifications = FALSE
    /\ meetingReminderMinutes = 2
    /\ autoEnableDoNotDisturb = FALSE
    /\ ext \in {[ExtInit EXCEPT !.webview = w] : w \in BOOLEAN}
    /\ ext.webview => variant = "windows"

NextTeardown ==
    \/ resolveWebviewView
    \/ \E a \in BOOLEAN : AutoRefreshPoll(a)
    \/ RefreshIntervalFires
    \/ \E k \in 1..MaxFetches, resp \in TeardownResponses : FetchReturn(k, resp)
    \/ \E k \in 1..MaxFetches : FetchThrow(k, "timeout")
    \/ (~ext.webview /\ Listening(ext)
        /\ \E d \in TeardownDurations : startSession(d))
    \/ (~ext.webview /\ Listening(ext) /\ startFocusAfterMeeting)
    \/ (~ext.webview /\ Listening(ext) /\ stopSession)
    \/ \E m \in RefreshPeriods : RefreshConfigChanged(m)
    \/ Dispose

SpecTeardown == InitTeardown /\ [][NextTeardown]_vars

\* C11: once the disposables are disposed, no timer of the extension is
\* armed: not the notification check interval, not the refresh interval,
\* no focus-session timer and not the webview's auto-refresh poll.
C11_NoTimerOutlivesDisposal ==
    ext.disposed =>
        /\ nextCheck = NoTime
        /\ ext.refreshTimers = {}
        /\ focus.timers = {}
        /\ ~ext.autoRefreshInterval

\* C36: while the extension is active exactly one refresh interval is
\* armed, the one the variable holds; and after a configuration change it
\* has the period of the refreshIntervalMinutes that was read.
C36_OneRefreshInterval ==
    /\ [](Listening(ext) =>
            /\ Cardinality(ext.refreshTimers) = 1
            /\ \A tm \in ext.refreshTimers : tm.h = ext.refreshInterval)
    /\ [][\A m \in RefreshPeriods :
            RefreshConfigChanged(m)
            => \A tm \in ext'.refreshTimers : tm.period = m]_vars

C36_Witness ==
    /\ Listening(ext)
    /\ ext.refreshInterval = MaxSetups + 1
    /\ \E tm \in ext.refreshTimers : tm.period = 1

\* C37: the webview's poll has run the refresh command at most
\* MaxRefreshAttempts times; at most one poll interval is armed; none is
\* armed once the provider has seen lastRefresh set or a non-empty cache,
\* which it does at the update event of the fetch and at the next poll;
\* and from then on none is armed again.
C37_AutoRefreshBounded ==
    /\ [](/\ ext.refreshAttempts <= MaxRefreshAttempts
          /\ ext.autoRefreshTimers <= 1
          /\ ext.didAutoRefresh => ext.autoRefreshTimers = 0
          /\ (Listening(ext) /\ (lastRefresh # NoTime \/ meetings # <<>>))
             => ext.autoRefreshTimers = 0)
    /\ [][/\ ext.didAutoRefresh => ext'.didAutoRefresh
          /\ ((\E a \in BOOLEAN : AutoRefreshPoll(a))
              /\ (lastRefresh # NoTime \/ meetings # <<>>))
             => /\ ext'.autoRefreshTimers = 0
                /\ ext'.didAutoRefresh
                /\ ext'.refreshAttempts = ext.refreshAttempts]_vars

C37_Witness ==
    /\ ext.webview
    /\ ext.refreshAttempts = MaxRefreshAttempts
    /\ ext.didAutoRefresh
    /\ ext.autoRefreshTimers = 0
    /\ lastRefresh # NoTime

\* C39: a fetch that completes after the disposables were disposed leaves
\* the today collection and lastRefresh as they were, and no listener of
\* the change event runs: the webview provider's fields and the
\* notification checks stay as they were.
C39_InFlightFetchCancelled ==
    [][\A k \in 1..MaxFetches :
          (ext.disposed /\ CompletedNow(k))
          => /\ Strip(meetings') = Strip(meetings)
             /\ cacheGen' = cacheGen
             /\ lastRefresh' = lastRefresh
             /\ ext' = ext
             /\ runs' = runs]_vars

\* ------------------------------------------------------------------------
\* SpecParse: one call of the response parser on a text drawn from
\* ParseTexts; the finished call is kept in `pr`
\* ------------------------------------------------------------------------
MaxItems == 2

TeamsOwn == Url(TrustedHost, "own")
ForeignOwn == Url("example.com", "own")
FootA == Url(TrustedHost, "a")
FootB == Url(TrustedHost, "b")
ForeignFoot == Url("example.com", "a")

NullElement == [kind |-> "null"]
ScalarElement == [kind |-> "scalar", startTime |-> NaN, endTime |-> NaN]
Footnote(n, url) == [n |-> n, url |-> url]
Block(hasTitle, title, s, e, url) ==
    [hasTitle |-> hasTitle, title |-> title, startTime |-> s, endTime |-> e,
     url |-> url]

ParseElements ==
    {Item(3, 4), Element("standup", 5, 6, TeamsOwn),
     Element("standup", 5, 6, ForeignOwn), Element("", 3, 4, NoUrl),
     Item(5, 4), Item(NaN, 4), Item(3, NaN),
     [Item(3, 4) EXCEPT !.joinUrl = TeamsOwn],
     NullElement, ScalarElement}

ParseItems ==
    UNION {[1..n -> ParseElements] : n \in 0..MaxItems}

ParseFootnotes ==
    {<<>>, <<Footnote(1, FootA), Footnote(1, FootB)>>,
     <<Footnote(2, FootA), Footnote(MaxItems + 1, FootB)>>}
    \cup {<<Footnote(n, u)>> : n \in 1..(MaxItems + 1), u \in {FootA, ForeignFoot}}

ParseBlocks ==
    {<<>>,
     <<Block(TRUE, "retro", 7, 8, NoUrl)>>,
     <<Block(TRUE, "retro", 1, NoMatch, FootA)>>,
     <<Block(TRUE, "retro", NaN, NoMatch, ForeignFoot)>>,
     <<Block(FALSE, NULL, 7, 8, NoUrl)>>,
     <<Block(TRUE, "retro", NoMatch, NoMatch, NoUrl)>>,
     <<Block(TRUE, "retro", 7, 8, NoUrl), Block(TRUE, "sync", NaN, 2, NoUrl)>>}

ParseTexts ==
    {Text("json", "array", items, fs, bs) :
        items \in ParseItems, fs \in ParseFootnotes, bs \in ParseBlocks}
    \cup {Text("json", j, <<>>, fs, bs) :
        j \in {"malformed", "none"}, fs \in ParseFootnotes, bs \in ParseBlocks}

\* the call up to the final sort, for the class the build contains
ParseRun(v, resp, t) ==
    IF v = "windows" THEN parseMeetingsRun(resp, t)
    ELSE parseWorkIQTextResponseRun(resp, t)

\* parseMeetings(response) / parseWorkIQTextResponse(response) returns, or
\* the error leaves the call
Parse ==
    /\ ~pr.done
    /\ LET r == ParseRun(variant, pr.resp, now)
       IN  \E out \in SortOutcomes(r.acc) :
              pr' = [pr EXCEPT !.out = IF r.raised THEN <<>> ELSE out,
                               !.threw = r.raised, !.done = TRUE]
    /\ UNCHANGED <<now, svcVars, cfgVars, ntfVars, focus, cls, lk, rd, ext>>

InitParse ==
    /\ now = 0
    /\ variant \in Variants
    /\ meetings = <<>>
    /\ tomorrowMeetings = <<>>
    /\ weekMeetings = <<>>
    /\ lastRefresh = NoTime
    /\ lastError = NULL
    /\ connectionState = "not_configured"
    /\ fetches = <<>>
    /\ cacheGen = 0
    /\ sentNotifications = {}
    /\ lastMeetingInProgress = NoId
    /\ runs = [r \in 1..MaxRuns |-> IdleRun]
    /\ focus = FocusInit
    /\ hist = HistInit
    /\ nextCheck = 0
    /\ pr \in {[PrIdle EXCEPT !.resp = r] : r \in ParseTexts}
    /\ lk = LkIdle
    /\ rd = RdIdle
    /\ cls = ClsIdle
    /\ enableNotifications = FALSE
    /\ meetingReminderMinutes = 2
    /\ autoEnableDoNotDisturb = FALSE
    /\ ext = ExtInit

NextParse == Parse

SpecParse == InitParse /\ [][NextParse]_vars

\* C12: the sequence the parser returns is in non-decreasing order of start
\* time: every start time is a time, and none is later than the one that
\* follows it.
C12_OutputSortedByStart ==
    pr.done =>
        \A i \in 1..Len(pr.out) :
            /\ pr.out[i].startTime # NaN
            /\ i < Len(pr.out)
                => DateLe(pr.out[i].startTime, pr.out[i + 1].startTime)

\* C13: every meeting the parser returns, from either path, has a start and
\* an end that are times, and its end is not before its start.
C13_ReturnedTimesValidAndOrdered ==
    pr.done =>
        \A i \in 1..Len(pr.out) :
            /\ pr.out[i].startTime # NaN
            /\ pr.out[i].endTime # NaN
            /\ pr.out[i].endTime >= pr.out[i].startTime

\* the array elements whose startTime and endTime both parse
Parseable(resp) ==
    {i \in 1..Len(resp.items) :
        /\ resp.items[i].kind = "object"
        /\ resp.items[i].startTime # NaN
        /\ resp.items[i].endTime # NaN}

\* C16: when the text holds a JSON array, every element of it whose
\* startTime and endTime parse is in the result, whatever the other elements
\* are; and an array whose only element has an unparseable startTime gives
\* an empty result (the text holding no numbered-list block).
C16_EveryParseableElementReturned ==
    (pr.done /\ pr.resp.json = "array") =>
        /\ \A i \in Parseable(pr.resp) :
              \E k \in 1..Len(pr.out) : pr.out[k].src = i - 1
        /\ (/\ Len(pr.resp.items) = 1
            /\ pr.resp.items[1].kind = "object"
            /\ pr.resp.items[1].startTime = NaN
            /\ pr.resp.blocks = <<>>) => pr.out = <<>>

\* C17: no meeting built from an array element has an empty title.
C17_NoEmptyTitle ==
    pr.done =>
        \A i \in 1..Len(pr.out) :
            pr.out[i].src # NoIndex => pr.out[i].title # ""

\* C18: the result comes from one strategy: when it holds a meeting built
\* from an array element, it holds no meeting built by the numbered-list
\* fallback.
C18_OneStrategy ==
    pr.done =>
        ((\E i \in 1..Len(pr.out) : pr.out[i].src # NoIndex)
            => \A i \in 1..Len(pr.out) : pr.out[i].src # NoIndex)

\* C19: the joinUrl of a returned meeting, when it has one, starts with the
\* trusted prefix of the footnote extraction.
C19_JoinUrlTrusted ==
    pr.done =>
        \A i \in 1..Len(pr.out) :
            pr.out[i].joinUrl # NoUrl => pr.out[i].joinUrl.host = TrustedHost

\* the join-URL field(s) of its elements that each class reads
OwnJoinUrl(v, it) ==
    IF v = "windows" THEN it.onlineJoinUrl
    ELSE IF it.onlineJoinUrl # NoUrl THEN it.onlineJoinUrl
    ELSE IF it.joinUrl # NoUrl THEN it.joinUrl
    ELSE it.teamsUrl

\* the footnotes of the text (links with the trusted prefix) numbered n
FootnotesNumbered(resp, n) ==
    {k \in 1..Len(resp.footnotes) :
        /\ resp.footnotes[k].n = n
        /\ resp.footnotes[k].url.host = TrustedHost}

WithoutOutOfRange(resp) ==
    [resp EXCEPT !.footnotes =
        SelectSeq(@, LAMBDA f : f.n <= Len(resp.items))]

\* C14: a meeting built from the array element at index i has the URL of
\* the footnote numbered i + 1 when the text holds one, else the element's
\* own join URL, else none; the call does not raise, and the footnotes
\* numbered beyond the array length change nothing of the result.
C14_JoinUrlPriority ==
    pr.done =>
        /\ ~pr.threw
        /\ \A k \in 1..Len(pr.out) :
              LET m == pr.out[k]
                  fn == FootnotesNumbered(pr.resp, m.src + 1)
              IN  m.src # NoIndex =>
                     IF fn # {}
                     THEN \E j \in fn : m.joinUrl = pr.resp.footnotes[j].url
                     ELSE m.joinUrl = OwnJoinUrl(variant, pr.resp.items[m.src + 1])
        /\ pr.out \in SortOutcomes(
                        ParseRun(variant, WithoutOutOfRange(pr.resp), now).acc)

C14_Witness ==
    /\ pr.done
    /\ \E k \in 1..Len(pr.out) :
          /\ pr.out[k].src > 0
          /\ pr.out[k].joinUrl = FootA
          /\ pr.resp.items[pr.out[k].src + 1].onlineJoinUrl = ForeignOwn
    /\ \E k \in 1..Len(pr.out) :
          /\ pr.out[k].src # NoIndex
          /\ pr.out[k].joinUrl = TeamsOwn
    /\ \E j \in 1..Len(pr.resp.footnotes) :
          pr.resp.footnotes[j].n > Len(pr.resp.items)

\* C15: the call of the parser returns for every text: no error leaves it,
\* and what it returns holds at most one meeting per array element and
\* numbered-list block of the text (empty when the text holds neither a
\* decodable array nor a block).
C15_ParserNeverThrows ==
    pr.done =>
        /\ ~pr.threw
        /\ Len(pr.out) <= Len(pr.resp.items) + Len(pr.resp.blocks)
        /\ (pr.resp.json # "array" /\ pr.resp.blocks = <<>>) => pr.out = <<>>

C15_Witness ==
    /\ pr.done
    /\ ~pr.threw
    /\ \/ pr.resp.json = "malformed"
       \/ /\ Len(pr.resp.items) > 1
          /\ pr.resp.items[Len(pr.resp.items)].kind = "null"
          /\ pr.resp.items[1].kind = "scalar"

\* ------------------------------------------------------------------------
\* SpecLookup: fetches of today's window, the clock, and a view that asks
\* the service for the next and the current meeting
\* ------------------------------------------------------------------------
MaxLookups == 2
LookupHorizon == 9

LookupResponses ==
    {Resp("json", <<Item(5, 8), Item(5, 6), M1>>), Resp("json", <<M2, M1>>),
     Resp("json", <<>>)}

getMinutesUntilNextMeeting_floor(ms, t, v) ==
    LET next == getNextMeeting(ms, t, v)
    IN  IF next = NoMeeting THEN <<>>
        ELSE <<FloorDiv(next.startTime - t, UnitsPerMinute)>>

\* meetingService.ts:223-226 and 729-735
getMinutesUntilNextMeeting(ms, t, v) ==
    LET next == getNextMeeting(ms, t, v)
    IN  IF next = NoMeeting THEN <<>>
        ELSE <<RoundDiv(next.startTime - t, UnitsPerMinute)>>

\* getNextMeeting(), getCurrentMeeting() and getMinutesUntilNextMeeting(),
\* each after updateMeetingStatuses()
Lookup ==
    /\ lk.n < MaxLookups
    /\ meetings' = updateMeetingStatuses(meetings, now, variant)
    /\ lk' = [next |-> getNextMeeting(meetings, now, variant),
              current |-> getCurrentMeeting(meetings, now, variant),
              minutes |-> getMinutesUntilNextMeeting(meetings, now, variant),
              n |-> lk.n + 1]
    /\ UNCHANGED <<now, variant, tomorrowMeetings, weekMeetings, lastRefresh,
                   lastError, connectionState, fetches, cacheGen, cfgVars,
                   ntfVars, focus, cls, pr, rd, ext>>

InitLookup == InitFetch

NextLookup ==
    \/ FetchStart("today")
    \/ \E k \in 1..MaxFetches, resp \in LookupResponses : FetchReturn(k, resp)
    \/ Advance(1, LookupHorizon)
    \/ Lookup

SpecLookup == InitLookup /\ [][NextLookup]_vars

\* the cache positions whose meeting is `st` at time t
WithStatusAt(ms, t, v, st) ==
    {i \in 1..Len(ms) : StatusOf(v, ms[i].startTime, ms[i].endTime, t) = st}

\* C20: a call of getNextMeeting returns the upcoming meeting of the cache
\* with the earliest start, the first in cache order among those, or null
\* when none is upcoming; getCurrentMeeting returns the first meeting in
\* cache order that is in progress, or null when none is.
C20_NextAndCurrent ==
    [][lk' # lk =>
        LET up == WithStatusAt(meetings, now, variant, "upcoming")
            ip == WithStatusAt(meetings, now, variant, "inProgress")
        IN  /\ IF up = {} THEN lk'.next = NoMeeting
               ELSE \E i \in up :
                      /\ \A j \in up :
                            \/ meetings[i].startTime < meetings[j].startTime
                            \/ /\ meetings[i].startTime = meetings[j].startTime
                               /\ i <= j
                      /\ lk'.next = [meetings[i] EXCEPT !.status = "upcoming"]
            /\ IF ip = {} THEN lk'.current = NoMeeting
               ELSE \E i \in ip :
                      /\ \A j \in ip : i <= j
                      /\ lk'.current =
                            [meetings[i] EXCEPT !.status = "inProgress"]]_vars

C20_Witness ==
    /\ lk.n > 0
    /\ lk.current # NoMeeting
    /\ lk.next # NoMeeting
    /\ \E i \in 1..Len(meetings) :
          /\ meetings[i].startTime = lk.next.startTime
          /\ meetings[i].id # lk.next.id

\* C21: a call of getMinutesUntilNextMeeting returns null exactly when
\* getNextMeeting returns null, and otherwise the integer nearest to the
\* minutes from the call to the start of the next meeting (a half going up),
\* which is not negative.
C21_MinutesUntilNext ==
    [][lk' # lk =>
        /\ (lk'.minutes = <<>>) <=> (lk'.next = NoMeeting)
        /\ lk'.next # NoMeeting =>
              LET gap == lk'.next.startTime - now
                  m == lk'.minutes[1]
              IN  /\ (2 * m - 1) * UnitsPerMinute <= 2 * gap
                  /\ 2 * gap < (2 * m + 1) * UnitsPerMinute
                  /\ m >= 0]_vars

C21_Witness ==
    /\ lk.n > 0
    /\ lk.next # NoMeeting
    /\ lk.minutes = <<1>>
    /\ lk.next.startTime - now = 2

\* ------------------------------------------------------------------------
\* SpecRead: fetches of the three windows, the clock, and a view that reads
\* a cached collection
\* ------------------------------------------------------------------------
MaxReads == 2
ReadHorizon == 7

ReadResponses == {Resp("json", <<M1>>), Resp("json", <<M2, M1>>)}

\* getCachedMeetings / getCachedTomorrowMeetings / getCachedWeekMeetings;
\* the class with the connection state has the first only
ReadCached(range) ==
    /\ rd.n < MaxReads
    /\ variant = "connection" => range = "today"
    /\ meetings' = IF range = "today"
                   THEN updateMeetingStatuses(meetings, now, variant)
                   ELSE meetings
    /\ rd' = [range |-> range,
              out |-> IF range = "today" THEN meetings'
                      ELSE IF range = "tomorrow" THEN tomorrowMeetings
                      ELSE weekMeetings,
              n |-> rd.n + 1]
    /\ UNCHANGED <<now, variant, tomorrowMeetings, weekMeetings, lastRefresh,
                   lastError, connectionState, fetches, cacheGen, cfgVars,
                   ntfVars, focus, cls, pr, lk, ext>>

InitRead == InitFetch

NextRead ==
    \/ \E timeRange \in TimeRanges : FetchStart(timeRange)
    \/ \E k \in 1..MaxFetches, resp \in ReadResponses : FetchReturn(k, resp)
    \/ Advance(1, ReadHorizon)
    \/ \E range \in TimeRanges : ReadCached(range)

SpecRead == InitRead /\ [][NextRead]_vars

\* C22: every meeting a read of a cached collection returns, for today,
\* tomorrow or the week, has the status that its start and end have at the
\* time of the read.
C22_StatusRecomputedOnRead ==
    [][rd'.n # rd.n =>
        \A i \in 1..Len(rd'.out) :
            rd'.out[i].status =
                StatusOf(variant, rd'.out[i].startTime, rd'.out[i].endTime,
                         now)]_vars

\* ------------------------------------------------------------------------
\* SpecPrune: the notification check over more than the retention time of
\* the ledger, with a user who switches the notifications off and on.  The
\* fetches happen at activation, the answers and the edits of the setting in
\* the first PruneActiveMinutes; after them only the clock and the interval
\* run.
\* ------------------------------------------------------------------------
PruneHorizonMinutes == 62
PruneActiveMinutes == 4

PruneResponses == {Resp("json", <<M1>>)}

\* the user edits the setting that getConfig() reads at the next check
ConfigChanged(enable) ==
    /\ enable # enableNotifications
    /\ enableNotifications' = enable
    /\ UNCHANGED <<now, svcVars, meetingReminderMinutes,
                   autoEnableDoNotDisturb, ntfVars, focus, auxVars, ext>>

PruneActive == now < Minutes(PruneActiveMinutes)

InitPrune == InitNotify

NextPrune ==
    \/ Tick
    \/ (PruneActive /\ \E r \in 1..MaxRuns : RespondReminder(r, "dismiss"))
    \/ (PruneActive /\ \E r \in 1..MaxRuns : RespondStarting(r))
    \/ (PruneActive /\ \E r \in 1..MaxRuns : RespondEnded(r, "dismiss"))
    \/ (now = 0 /\ FetchStart("today"))
    \/ (now = 0
        /\ \E k \in 1..MaxFetches, resp \in PruneResponses : FetchReturn(k, resp))
    \/ (PruneActive /\ \E enable \in BOOLEAN : ConfigChanged(enable))
    \/ (now < nextCheck /\ Advance(Minutes(1), Minutes(PruneHorizonMinutes)))

SpecPrune == InitPrune /\ [][NextPrune]_vars

\* the check interval fires in this step and its check runs to its end
TickCompletes ==
    /\ nextCheck' # nextCheck
    /\ nextCheck' # NoTime
    /\ runs' = runs

\* C26: after a tick of the check interval has run to its end, whatever the
\* settings are, the ledger holds no entry recorded more than 60 minutes
\* before that tick.
C26_LedgerPrunedOnEveryTick ==
    [][TickCompletes =>
        \A e \in sentNotifications' :
            e.sentAt >= now - Minutes(RetentionMinutes)]_vars

\* ------------------------------------------------------------------------
\* SpecRemind: the notification check with two meetings whose reminders
\* fall due at successive ticks, and a user who may leave notifications
\* unanswered
\* ------------------------------------------------------------------------
RemindHorizonMinutes == 3
RemindThresholdMinutes == 1

RemindResponses == {Resp("json", <<Item(4, 7), Item(6, 8)>>)}

InitRemind ==
    /\ InitCommon
    /\ cls = ClsIdle
    /\ enableNotifications = TRUE
    /\ meetingReminderMinutes = RemindThresholdMinutes
    /\ autoEnableDoNotDisturb = FALSE

NextRemind ==
    \/ Tick
    \/ \E r \in 1..MaxRuns : RespondReminder(r, "dismiss")
    \/ \E r \in 1..MaxRuns : RespondStarting(r)
    \/ \E r \in 1..MaxRuns : RespondEnded(r, "dismiss")
    \/ FetchStart("today")
    \/ \E k \in 1..MaxFetches, resp \in RemindResponses : FetchReturn(k, resp)
    \/ (now < nextCheck /\ Advance(Minutes(1), Minutes(RemindHorizonMinutes)))

SpecRemind == InitRemind /\ [][NextRemind]_vars

\* the meeting has been in the today cache since before the first moment
\* at which its rounded minutes-until is within the threshold (its id
\* carries the time at which it was parsed and stored)
CachedBeforeThreshold(m) ==
    MinutesUntil(m.startTime, m.id[2]) > meetingReminderMinutes

\* C28: once every tick of the check interval that precedes the start of a
\* meeting has fired, a meeting that has been in the today cache since
\* before its reminder threshold has had its reminder shown, whether or not
\* earlier notifications were answered.
C28_ReminderBeforeStart ==
    \A i \in 1..Len(meetings) :
        (/\ nextCheck >= meetings[i].startTime
         /\ CachedBeforeThreshold(meetings[i]))
        => Key("reminder", meetings[i].id) \in hist.shown


\* ------------------------------------------------------------------------
\* SpecClock: one block of the numbered-list fallback of
\* parseWorkIQTextResponse, from what its regular expressions matched to the
\* meeting it appends.  Times are whole minutes; `today` is local midnight.
\* A match is [kind |-> "none"], a bare clock time
\* [kind |-> "clock", hours, minutes, period] with period "AM", "PM" or
\* "none", or an ISO 8601 time [kind |-> "iso", t, hours, minutes]: the
\* instant t and the hour and minute digits written in it.  (FallbackLoop
\* above takes the times of its blocks after this conversion.)
\* ------------------------------------------------------------------------
\* meetingService.ts:678-698; the expression of line 682 finds in an ISO
\* string the hour and minute digits and no period
parseTime(c, baseDate) ==
    LET hours == IF c.period = "PM" /\ c.hours < 12 THEN c.hours + 12
                 ELSE IF c.period = "AM" /\ c.hours = 12 THEN 0
                 ELSE c.hours
    IN  baseDate + hours * 60 + c.minutes

AsClock(m) ==
    IF m.kind = "clock" THEN m
    ELSE [kind |-> "clock", hours |-> m.hours, minutes |-> m.minutes,
          period |-> "none"]

\* meetingService.ts:625-671: the meeting a block yields, <<>> when the
\* block is skipped
FallbackBlock(b, today) ==
    LET startTime == IF b.start.kind = "iso" THEN b.start.t
                     ELSE parseTime(b.start, today)
        endTime == IF b.start.kind = "iso"
                   THEN IF b.end.kind = "iso" THEN b.end.t
                        ELSE startTime + FallbackMinutes
                   ELSE IF b.end.kind # "none"
                        THEN parseTime(AsClock(b.end), today)
                        ELSE startTime + FallbackMinutes
    IN  IF b.hasTitle /\ b.start.kind # "none"
        THEN <<[startTime |-> startTime, endTime |-> endTime,
                duration |-> endTime - startTime]>>
        ELSE <<>>

ClockHours == {1, 12, 13}
ClockMinutes == {0, 30}
ClockPeriods == {"AM", "PM", "none"}
ClockMatches ==
    {[kind |-> "none"]}
    \cup {[kind |-> "clock", hours |-> h, minutes |-> m, period |-> p] :
            h \in ClockHours, m \in ClockMinutes, p \in ClockPeriods}
    \cup {[kind |-> "iso", t |-> d * 1440 + 13 * 60 + m, hours |-> 13,
           minutes |-> m] : d \in {0, 1}, m \in ClockMinutes}
ClockBlocks ==
    {[block |-> [hasTitle |-> ht, start |-> s, end |-> e], today |-> 0] :
        ht \in BOOLEAN, s \in ClockMatches, e \in ClockMatches}

\* the loop body of the fallback runs for the block
ParseBlock ==
    /\ ~pr.done
    /\ pr' = [pr EXCEPT !.out = FallbackBlock(pr.resp.block, pr.resp.today),
                        !.done = TRUE]
    /\ UNCHANGED <<now, svcVars, cfgVars, ntfVars, focus, cls, lk, rd, ext>>

InitClock ==
    /\ now = 0
    /\ variant = "connection"
    /\ meetings = <<>>
    /\ tomorrowMeetings = <<>>
    /\ weekMeetings = <<>>
    /\ lastRefresh = NoTime
    /\ lastError = NULL
    /\ connectionState = "not_configured"
    /\ fetches = <<>>
    /\ cacheGen = 0
    /\ sentNotifications = {}
    /\ lastMeetingInProgress = NoId
    /\ runs = [r \in 1..MaxRuns |-> IdleRun]
    /\ focus = FocusInit
    /\ hist = HistInit
    /\ nextCheck = 0
    /\ pr \in {[PrIdle EXCEPT !.resp = b] : b \in ClockBlocks}
    /\ lk = LkIdle
    /\ rd = RdIdle
    /\ cls = ClsIdle
    /\ enableNotifications = FALSE
    /\ meetingReminderMinutes = 2
    /\ autoEnableDoNotDisturb = FALSE
    /\ ext = ExtInit

NextClock == ParseBlock

SpecClock == InitClock /\ [][NextClock]_vars

\* the hour of the day a bare clock time names
HourOfDay(c) ==
    CASE c.period = "AM" /\ c.hours = 12 -> 0
      [] c.period = "PM" /\ c.hours = 12 -> 12
      [] c.period = "PM" /\ c.hours < 12 -> c.hours + 12
      [] OTHER -> c.hours

Anchored(c, today) == today + HourOfDay(c) * 60 + c.minutes

\* C38: a block is skipped exactly when it lacks a title or a start time;
\* otherwise a bare clock time of the block, start or end, becomes that
\* time of day on today's date, a block without an end time ends
\* FallbackMinutes after its start, and the duration is end minus start.
C38_FallbackBlockTimes ==
    pr.done =>
        LET b == pr.resp.block
            today == pr.resp.today
        IN  /\ (pr.out = <<>>) <=> (~b.hasTitle \/ b.start.kind = "none")
            /\ pr.out # <<>> =>
                  LET m == pr.out[1]
                  IN  /\ b.start.kind = "clock"
                         => m.startTime = Anchored(b.start, today)
                      /\ b.end.kind = "clock"
                         => m.endTime = Anchored(b.end, today)
                      /\ b.end.kind = "none"
                         => m.endTime = m.startTime + FallbackMinutes
                      /\ m.duration = m.endTime - m.startTime

====
